---- MODULE Spec2Model ----
(***************************************************************************)
(* Model of packages/core of mammot: the @option / @forced / @data         *)
(* decorators (decorators.ts) and the Mammot client (mammot.ts):           *)
(* addCommands, login, the 'interactionCreate' listener and the            *)
(* once('ready') listener.                                                 *)
(*                                                                         *)
(* addOption, addCommandData, readCommand and getParamType (reflection.ts)  *)
(* and Command.resolveMetadata (command.ts) are modelled from the          *)
(* specification of the metadata store and of argument resolution.         *)
(***************************************************************************)
EXTENDS Integers, Sequences, FiniteSets, TLC

VARIABLES
    store,                \* metadata store: class -> [options, data]
    thrown,               \* configuration error raised by the last decorator call
    lastCall,             \* the arguments of the last decorator call
    fallbackError,        \* Mammot.fallbackError
    isDev,                \* Mammot.isDev
    commands,             \* Mammot.commands, a Map in insertion order
    instances,            \* the class of each command instance constructed so far
    interactionListeners, \* listeners registered with client.on('interactionCreate')
    readyListeners,       \* listeners registered with client.once('ready'), each with its mapped
    isReady,              \* the client has emitted 'ready'
    submissions,          \* calls of client.application.commands.set, each with its progress
    events,               \* the interactionCreate events delivered so far
    tasks,                \* one record per run of the interactionCreate listener past its guards
    unhandled             \* promises rejected with no handler attached

vars == <<store, thrown, lastCall, fallbackError, isDev, commands, instances,
          interactionListeners, readyListeners, isReady, submissions,
          events, tasks, unhandled>>

clientVars == <<fallbackError, isDev, commands, instances, interactionListeners,
                readyListeners, isReady, submissions, events, tasks, unhandled>>

--------------------------------------------------------------------------
(* Bounds of the model. *)

MaxAttach == 2      \* decorator calls explored per class
MaxInstances == 2   \* command instances constructed by addCommands
MaxBatch == 2       \* classes passed to one call of addCommands
MaxLogins == 2      \* calls of login
MaxEvents == 2      \* interactionCreate events delivered
MaxTasks == 2       \* listener runs that reach the try block

--------------------------------------------------------------------------
(* Values. *)

Undefined == "undefined"

NoError == "none"

\* The option kinds of OptionMetadataTypes, and MENTIONABLE, which a config
\* may name but no declared type infers.
OptionKinds == {"STRING", "BOOLEAN", "NUMBER", "INTEGER", "ROLE", "USER", "CHANNEL"}

ConfigTypes == OptionKinds \cup {"MENTIONABLE"}

\* Values of design:paramtypes: constructor functions, or undefined.
Constructors == {"String", "Boolean", "Number", "Role", "User", "GuildMember",
                 "TextChannel", "Date"}

DeclaredTypes == Constructors \cup {Undefined}

\* Partial<OptionConfig>, reduced to the two fields option() reads.
Configs == [type : ConfigTypes \cup {Undefined}, force : {Undefined, "true", "false"}]

EmptyConfig == [type |-> Undefined, force |-> Undefined]

--------------------------------------------------------------------------
(* decorators.ts *)

\* isNumOrInt that lets STRING through as well.
isNumOrIntOrString(val) == val \in {"NUMBER", "INTEGER", "STRING"}

isNumOrInt(val) == val \in {"NUMBER", "INTEGER"}

\* `type instanceof GuildChannel.constructor`: GuildChannel.constructor is
\* Function, so the test holds of every constructor function.
InstanceofGuildChannelConstructor(type) == type \in Constructors

\* The switch of option(): the chosen type, or the TypeError it throws.
ChosenType(type, config) ==
    IF type = "String" THEN [ok |-> TRUE, type |-> "STRING"]
    ELSE IF type = "Boolean" THEN [ok |-> TRUE, type |-> "BOOLEAN"]
    ELSE IF type = "Number" THEN
        IF config.type = Undefined
            THEN [ok |-> FALSE, error |-> "You must specify a type for numbers in the config!"]
        ELSE IF ~isNumOrInt(config.type)
            THEN [ok |-> FALSE, error |-> "Number type must be either NUMBER or INTEGER."]
        ELSE [ok |-> TRUE, type |-> config.type]
    ELSE IF type = "Role" THEN [ok |-> TRUE, type |-> "ROLE"]
    ELSE IF type = "User" \/ type = "GuildMember" THEN [ok |-> TRUE, type |-> "USER"]
    ELSE IF InstanceofGuildChannelConstructor(type) THEN [ok |-> TRUE, type |-> "CHANNEL"]
    ELSE [ok |-> FALSE, error |-> "Unsupported data type."]

\* Mismatch with the force flag left out of the condition.
MismatchIgnoringForce(chosenType, config) ==
    config.type /= Undefined /\ chosenType /= config.type

\* The check after the switch: config.type && chosenType !== config.type && !config.force
Mismatch(chosenType, config) ==
    config.type /= Undefined /\ chosenType /= config.type /\ config.force /= "true"

\* getParamType(target, index): the declared type of parameter `index` of run.
getParamType(paramtypes, index) ==
    IF index \in DOMAIN paramtypes THEN paramtypes[index] ELSE Undefined

\* addOption(target, metadata): the class's collected options, with one more.
addOption(entry, metadata) ==
    [entry EXCEPT !.options = Append(@, metadata)]

\* addCommandData(target, data): write or replace the class-level metadata.
addCommandData(entry, data) ==
    [entry EXCEPT !.data = data]

\* OptionResult with addOption called before the mismatch check.
OptionResultWriteFirst(entry, isCommand, paramtypes, property, index, name, config) ==
    IF property /= "run"
        THEN [error |-> "The @option() decorator can only be used on the .run method.",
              entry |-> entry]
    ELSE IF ~isCommand
        THEN [error |-> "You can only use @option() on a class extending Command!",
              entry |-> entry]
    ELSE LET chosen == ChosenType(getParamType(paramtypes, index), config) IN
        IF ~chosen.ok
            THEN [error |-> chosen.error, entry |-> entry]
        ELSE [error |-> IF Mismatch(chosen.type, config) THEN "Type mismatch." ELSE NoError,
              entry |-> addOption(entry,
                  [name |-> name, index |-> index,
                   config |-> [config EXCEPT !.type = chosen.type]])]

\* option(name, config)(target, property, index): what the decorator does, as
\* the error it throws (NoError when it returns) and the store entry it leaves.
OptionResult(entry, isCommand, paramtypes, property, index, name, config) ==
    IF property /= "run"
        THEN [error |-> "The @option() decorator can only be used on the .run method.",
              entry |-> entry]
    ELSE IF ~isCommand
        THEN [error |-> "You can only use @option() on a class extending Command!",
              entry |-> entry]
    ELSE LET chosen == ChosenType(getParamType(paramtypes, index), config) IN
        IF ~chosen.ok
            THEN [error |-> chosen.error, entry |-> entry]
        ELSE IF Mismatch(chosen.type, config)
            THEN [error |-> "Type mismatch.", entry |-> entry]
        ELSE [error |-> NoError,
              entry |-> addOption(entry,
                  [name |-> name, index |-> index,
                   config |-> [config EXCEPT !.type = chosen.type]])]

\* forced(name, config): option(name, {...config, force: true}).
ForcedResult(entry, isCommand, paramtypes, property, index, name, config) ==
    OptionResult(entry, isCommand, paramtypes, property, index, name,
                 [config EXCEPT !.force = "true"])

\* data(name, description)(target)
DataResult(entry, isCommand, name, description) ==
    IF ~isCommand
        THEN [error |-> "You can only use @name() on a class that extends Command!",
              entry |-> entry]
    ELSE [error |-> NoError,
          entry |-> addCommandData(entry, [name |-> name, description |-> description])]

--------------------------------------------------------------------------
(* The annotation layer on its own: the declaration of one class, with     *)
(* every declared type and every config at each decorated parameter. The   *)
(* parameter decorators run before the class decorator, and a decorator    *)
(* that throws ends the declaration.                                       *)

Classes == {"Ping", "Ping2", "Echo", "Helper"}

\* `target instanceof Command`: Helper is a class that does not extend Command.
IsCommandClass(cls) == cls /= "Helper"

EmptyEntry == [options |-> <<>>, data |-> [name |-> Undefined, description |-> Undefined]]

EmptyStore == [cls \in Classes |-> EmptyEntry]

AttachClasses == {"Ping", "Helper"}

\* Parameter decorators run rightmost parameter first: the k-th call on a
\* class with MaxAttach parameters is for index MaxAttach - k.
NextIndex(entry) == MaxAttach - 1 - Len(entry.options)

AttachName(index) == IF index = 0 THEN "reason" ELSE IF index = 1 THEN "count" ELSE "who"

NoCall ==
    [decorator |-> Undefined, class |-> Undefined, property |-> Undefined, index |-> 0,
     type |-> Undefined, name |-> Undefined, config |-> EmptyConfig]

Decorate(cls, call, result) ==
    /\ lastCall' = call
    /\ thrown' = result.error
    /\ store' = [store EXCEPT ![cls] = result.entry]
    /\ UNCHANGED clientVars

Declaring(cls) ==
    /\ thrown = NoError
    /\ lastCall.class \in {Undefined, cls}
    /\ store[cls].data.name = Undefined

OptionDecorator(cls) ==
    /\ Declaring(cls)
    /\ Len(store[cls].options) < MaxAttach
    /\ \E property \in {"run", "execute"}, type \in DeclaredTypes, config \in Configs :
        LET index == NextIndex(store[cls]) IN
        Decorate(cls,
                 [decorator |-> "option", class |-> cls, property |-> property,
                  index |-> index, type |-> type, name |-> AttachName(index),
                  config |-> config],
                 OptionResult(store[cls], IsCommandClass(cls), index :> type,
                              property, index, AttachName(index), config))

ForcedDecorator(cls) ==
    /\ Declaring(cls)
    /\ Len(store[cls].options) < MaxAttach
    /\ \E type \in DeclaredTypes, ctype \in ConfigTypes \cup {Undefined} :
        LET index == NextIndex(store[cls]) IN
        Decorate(cls,
                 [decorator |-> "forced", class |-> cls, property |-> "run",
                  index |-> index, type |-> type, name |-> AttachName(index),
                  config |-> [type |-> ctype, force |-> Undefined]],
                 ForcedResult(store[cls], IsCommandClass(cls), index :> type,
                              "run", index, AttachName(index),
                              [type |-> ctype, force |-> Undefined]))

DataDecorator(cls) ==
    /\ Declaring(cls)
    /\ \E name \in {"ping", "echo"} :
        Decorate(cls,
                 [NoCall EXCEPT !.decorator = "data", !.class = cls, !.name = name],
                 DataResult(store[cls], IsCommandClass(cls), name, "pong"))

InitClient ==
    /\ fallbackError \in {Undefined, "", "Oops!"}
    /\ isDev \in BOOLEAN
    /\ commands = <<>>
    /\ instances = << >>
    /\ interactionListeners = 0
    /\ readyListeners = <<>>
    /\ isReady = FALSE
    /\ submissions = <<>>
    /\ events = <<>>
    /\ tasks = <<>>
    /\ unhandled = {}

InitOption ==
    /\ store = EmptyStore
    /\ thrown = NoError
    /\ lastCall = NoCall
    /\ InitClient
    /\ fallbackError = Undefined
    /\ isDev = FALSE

NextOption ==
    \E cls \in AttachClasses :
        \/ OptionDecorator(cls)
        \/ ForcedDecorator(cls)
        \/ DataDecorator(cls)

SpecOption == InitOption /\ [][NextOption]_vars

--------------------------------------------------------------------------
(* The command classes the client is given. Each is declared as            *)
(*   @data(name, description) class C extends Command {                    *)
(*     run(interaction, @option(...) p0: T0, @option(...) p1: T1, ...) }   *)
(* and its store entry is what the decorators above leave, run rightmost   *)
(* parameter first and the class decorator last. An option's index is its  *)
(* zero-based position among the declared options.                         *)

Param(name, type, forced, config) ==
    [name |-> name, type |-> type, forced |-> forced, config |-> config]

Declarations ==
    [cls \in Classes |->
        IF cls = "Ping" THEN
            [name |-> "ping", description |-> "pong",
             params |-> << Param("reason", "String", FALSE, EmptyConfig),
                           Param("count", "Number", FALSE,
                                 [type |-> "INTEGER", force |-> Undefined]),
                           Param("who", "GuildMember", TRUE,
                                 [type |-> "MENTIONABLE", force |-> Undefined]) >>]
        ELSE IF cls = "Ping2" THEN
            [name |-> "ping", description |-> "pong again",
             params |-> << Param("flag", "Boolean", FALSE, EmptyConfig) >>]
        ELSE IF cls = "Echo" THEN
            [name |-> "echo", description |-> "say it back",
             params |-> << Param("text", "String", FALSE, EmptyConfig),
                           Param("times", "Number", FALSE,
                                 [type |-> "NUMBER", force |-> "false"]) >>]
        ELSE
            [name |-> Undefined, description |-> Undefined, params |-> << >>]]

CommandClasses == {cls \in Classes : IsCommandClass(cls)}

Paramtypes(cls) ==
    LET params == Declarations[cls].params IN
    [index \in 0 .. Len(params) - 1 |-> params[index + 1].type]

\* The store entry after the decorators of parameters Len(params) down to k ran.
RECURSIVE DecoratedFrom(_, _)
DecoratedFrom(cls, k) ==
    LET params == Declarations[cls].params IN
    IF k > Len(params) THEN EmptyEntry
    ELSE LET before == DecoratedFrom(cls, k + 1)
             p == params[k]
         IN IF p.forced
                THEN ForcedResult(before, IsCommandClass(cls), Paramtypes(cls),
                                  "run", k - 1, p.name, p.config).entry
                ELSE OptionResult(before, IsCommandClass(cls), Paramtypes(cls),
                                  "run", k - 1, p.name, p.config).entry

DeclaredEntry(cls) ==
    IF IsCommandClass(cls)
        THEN DataResult(DecoratedFrom(cls, 1), TRUE, Declarations[cls].name,
                        Declarations[cls].description).entry
        ELSE EmptyEntry

DeclaredStore == [cls \in Classes |-> DeclaredEntry(cls)]

--------------------------------------------------------------------------
(* mammot.ts: the Map of commands *)

MapHas(map, key) == \E i \in 1 .. Len(map) : map[i].name = key

MapIndex(map, key) == CHOOSE i \in 1 .. Len(map) : map[i].name = key

\* What Map.prototype.get gives for a key the map does not hold.
NotFound ==
    [description |-> Undefined, name |-> Undefined, options |-> << >>,
     command |-> [class |-> Undefined, id |-> 0]]

MapGet(map, key) == IF MapHas(map, key) THEN map[MapIndex(map, key)] ELSE NotFound

\* MapSet that keeps the value a present key already has.
MapSetKeepFirst(map, key, value) ==
    IF MapHas(map, key) THEN map ELSE Append(map, value)

\* Map.prototype.set: a present key keeps its place and takes the new value,
\* a new key goes last.
MapSet(map, key, value) ==
    IF MapHas(map, key)
        THEN [map EXCEPT ![MapIndex(map, key)] = value]
        ELSE Append(map, value)

\* readCommand(command): the class-level metadata and the collected options
\* of the instance's class.
readCommand(command) ==
    [name |-> store[command.class].data.name,
     description |-> store[command.class].data.description,
     options |-> store[command.class].options]

\* The body of the for loop of addCommands.
ParsedCommand(command) ==
    LET read == readCommand(command) IN
    [description |-> read.description,
     name |-> read.name,
     options |-> read.options,
     command |-> command]

\* `new Cmd(this)` for each class of the batch, numbered from `base`.
Constructed(batch, base) ==
    [i \in 1 .. Len(batch) |-> [class |-> batch[i], id |-> base + i]]

RECURSIVE SetAll(_, _, _)
SetAll(map, mapped, i) ==
    IF i > Len(mapped) THEN map
    ELSE SetAll(MapSet(map, readCommand(mapped[i]).name, ParsedCommand(mapped[i])),
                mapped, i + 1)

Batches == UNION {[1 .. n -> CommandClasses] : n \in 1 .. MaxBatch}

addCommands(batch) ==
    /\ Len(instances) + Len(batch) <= MaxInstances
    /\ instances' = instances \o batch
    /\ commands' = SetAll(commands, Constructed(batch, Len(instances)), 1)
    /\ UNCHANGED <<store, thrown, lastCall, fallbackError, isDev, interactionListeners,
                   readyListeners, isReady, submissions, events, tasks, unhandled>>

--------------------------------------------------------------------------
(* mammot.ts: login *)

\* Array.prototype.reverse
Reverse(seq) == [i \in 1 .. Len(seq) |-> seq[Len(seq) + 1 - i]]

\* {...option.config, name: option.name}
Flattened(option) ==
    [type |-> option.config.type, force |-> option.config.force, name |-> option.name]

\* command.options.reverse() reverses the array the registry entry holds and
\* returns that same array.
ReversedInPlace(command) == [command EXCEPT !.options = Reverse(@)]

Mapped(map) ==
    [i \in 1 .. Len(map) |->
        [options |-> [k \in 1 .. Len(map[i].options) |->
                         Flattened(ReversedInPlace(map[i]).options[k])],
         name |-> map[i].name,
         description |-> map[i].description]]

AfterLogin(map) == [i \in 1 .. Len(map) |-> ReversedInPlace(map[i])]

login ==
    /\ interactionListeners < MaxLogins
    /\ commands' = AfterLogin(commands)
    /\ interactionListeners' = interactionListeners + 1
    /\ readyListeners' = Append(readyListeners, Mapped(commands))
    /\ UNCHANGED <<store, thrown, lastCall, fallbackError, isDev, instances, isReady,
                   submissions, events, tasks, unhandled>>

--------------------------------------------------------------------------
(* mammot.ts: the once('ready') listener *)

DevelopmentGuild == "developmentGuild"

\* SetCall with the two branches of `if (this.isDev)` exchanged.
SetCallSwapped(mapped, dev) ==
    [mapped |-> mapped,
     guildId |-> IF dev THEN Undefined ELSE DevelopmentGuild,
     state |-> "pending",
     readyCalls |-> 0]

\* The arguments of the call of client.application.commands.set.
SetCall(mapped, dev) ==
    [mapped |-> mapped,
     guildId |-> IF dev THEN DevelopmentGuild ELSE Undefined,
     state |-> "pending",
     readyCalls |-> 0]

\* The client emits 'ready': every once-listener runs up to its first await.
ready ==
    /\ ~isReady
    /\ interactionListeners > 0
    /\ isReady' = TRUE
    /\ submissions' = submissions \o
            [i \in 1 .. Len(readyListeners) |-> SetCall(readyListeners[i], isDev)]
    /\ readyListeners' = << >>
    /\ UNCHANGED <<store, thrown, lastCall, fallbackError, isDev, commands, instances,
                   interactionListeners, events, tasks, unhandled>>

\* AfterSet that goes on to options.ready whether or not commands.set resolved.
AfterSetAlwaysReady(submission, ok) ==
    [submission EXCEPT !.state = IF ok THEN "resolved" ELSE "rejected",
                       !.readyCalls = @ + 1]

\* The listener after `await commands.set(...)`: resolved, it goes on to call
\* options.ready; rejected, the await throws and the listener ends there.
AfterSet(submission, ok) ==
    IF ok THEN [submission EXCEPT !.state = "resolved", !.readyCalls = @ + 1]
    ELSE [submission EXCEPT !.state = "rejected"]

\* commands.set settles (the result of options.ready itself is not followed
\* here); a rejection rejects the listener's promise and nothing handles it.
SubmissionSettles(i, ok) ==
    /\ submissions[i].state = "pending"
    /\ submissions' = [submissions EXCEPT ![i] = AfterSet(@, ok)]
    /\ unhandled' = IF ok THEN unhandled
                    ELSE unhandled \cup {[kind |-> "ready", id |-> i]}
    /\ UNCHANGED <<store, thrown, lastCall, fallbackError, isDev, commands, instances,
                   interactionListeners, readyListeners, isReady, events, tasks>>

--------------------------------------------------------------------------
(* mammot.ts: the 'interactionCreate' listener *)

EventNames == {"ping", "echo", "pang"}

\* What a handler or the option resolution raises: a MammotError or any
\* other error, with its message.
Errors ==
    {[raised |-> TRUE, mammot |-> TRUE, message |-> "Not enough permissions"],
     [raised |-> TRUE, mammot |-> FALSE, message |-> "Not enough permissions"],
     [raised |-> TRUE, mammot |-> FALSE, message |-> "boom"]}

\* What option resolution raises on a bag it cannot resolve.
ResolveErrors == {[raised |-> TRUE, mammot |-> FALSE, message |-> "boom"]}

None == [raised |-> FALSE, mammot |-> FALSE, message |-> ""]

NoReply == [sent |-> FALSE, ephemeral |-> FALSE, content |-> ""]

\* interaction.isCommand() and interaction.commandName
Events ==
    {[isCommand |-> FALSE, commandName |-> Undefined]}
    \cup [isCommand : {TRUE}, commandName : EventNames]

\* Command.resolveMetadata(interaction, options): one value per option, in
\* the order of `options`, each read from the bag by the option's name as the
\* option's kind.
resolveMetadata(options) ==
    [i \in 1 .. Len(options) |->
        [option |-> options[i].name, kind |-> options[i].config.type]]

\* Truthy that takes every supplied string, the empty one included.
TruthyIfDefined(string) == string /= Undefined

\* `this.fallbackError` as a condition
Truthy(string) == string /= Undefined /\ string /= ""

\* Message that falls back to the error's own message.
MessageLeaksError(error, fallback) ==
    IF error.mammot THEN error.message
    ELSE IF Truthy(fallback) THEN fallback
    ELSE error.message

\* Message with the fallback tested before the kind of the error.
MessageFallbackFirst(error, fallback) ==
    IF Truthy(fallback) THEN fallback
    ELSE IF error.mammot THEN error.message
    ELSE "Something went wrong."

\* The message of the catch block.
Message(error, fallback) ==
    IF error.mammot THEN error.message
    ELSE IF Truthy(fallback) THEN fallback
    ELSE "Something went wrong."

\* console.warn(error), unless error instanceof MammotError
Warned(error) == IF ~error.mammot THEN error ELSE None

\* interaction.reply({ephemeral: true, content: message})
Reply(message) == [sent |-> TRUE, ephemeral |-> TRUE, content |-> message]

\* The catch block: the reply is called and its promise dropped.
Caught(task, error, fallback) ==
    [task EXCEPT !.pc = "replying",
                 !.error = error,
                 !.warned = Warned(error),
                 !.reply = Reply(Message(error, fallback)),
                 !.replies = @ + 1]

\* The try block up to the await: the arguments are resolved, then run is
\* called with them.
Try(found, resolveError, e, l, fallback) ==
    LET task == [event |-> e, listener |-> l, command |-> found.command,
                 options |-> found.options, invoked |-> FALSE, args |-> << >>,
                 pc |-> "resolving", error |-> None, warned |-> None,
                 reply |-> NoReply, replies |-> 0]
    IN IF resolveError.raised
           THEN Caught(task, resolveError, fallback)
           ELSE [task EXCEPT !.invoked = TRUE,
                             !.args = resolveMetadata(found.options),
                             !.pc = "awaiting"]

\* Passes without the `if (!found) return`.
PassesAnyCommand(map, event) == event.isCommand

\* The guards of the listener: it returns on an interaction that is not a
\* command and on a name the registry does not hold.
Passes(map, event) ==
    /\ event.isCommand
    /\ MapGet(map, event.commandName) /= NotFound

\* One run of the listener per registered listener.
ListenerRuns(map, listeners, event, resolveError, e, fallback) ==
    IF ~Passes(map, event) THEN << >>
    ELSE [l \in 1 .. listeners |->
             Try(MapGet(map, event.commandName), resolveError, e, l, fallback)]

\* The client emits 'interactionCreate'. resolveError is what resolveMetadata
\* raises on the event's option bag (None when it returns).
interactionCreate(event, resolveError) ==
    /\ interactionListeners > 0
    /\ Len(events) < MaxEvents
    /\ Passes(commands, event) \/ resolveError = None
    /\ LET runs == ListenerRuns(commands, interactionListeners, event, resolveError,
                                Len(events) + 1, fallbackError)
       IN /\ Len(tasks) + Len(runs) <= MaxTasks
          /\ tasks' = tasks \o runs
    /\ events' = Append(events, event)
    /\ UNCHANGED <<store, thrown, lastCall, fallbackError, isDev, commands, instances,
                   interactionListeners, readyListeners, isReady, submissions,
                   unhandled>>

\* HandlerSettles with one outcome shared by every run that is awaiting.
HandlerSettlesShared(t, outcome) ==
    /\ tasks[t].pc = "awaiting"
    /\ tasks' = [u \in 1 .. Len(tasks) |->
                    IF tasks[u].pc /= "awaiting" THEN tasks[u]
                    ELSE IF outcome.raised THEN Caught(tasks[u], outcome, fallbackError)
                    ELSE [tasks[u] EXCEPT !.pc = "returned"]]
    /\ UNCHANGED <<store, thrown, lastCall, fallbackError, isDev, commands, instances,
                   interactionListeners, readyListeners, isReady, submissions,
                   events, unhandled>>

\* The promise of command.run settles: fulfilled, the listener returns;
\* rejected, the catch block runs.
HandlerSettles(t, outcome) ==
    /\ tasks[t].pc = "awaiting"
    /\ tasks' = [tasks EXCEPT ![t] =
                    IF outcome.raised THEN Caught(@, outcome, fallbackError)
                    ELSE [@ EXCEPT !.pc = "returned"]]
    /\ UNCHANGED <<store, thrown, lastCall, fallbackError, isDev, commands, instances,
                   interactionListeners, readyListeners, isReady, submissions,
                   events, unhandled>>

\* AfterReply that replies again when the delivery failed.
AfterReplyRetry(task, ok, fallback) ==
    IF ok THEN [task EXCEPT !.pc = "replied"]
    ELSE [Caught(task, task.error, fallback) EXCEPT !.pc = "replyRejected"]

\* The listener's run once the reply settled: nothing awaits the promise, so
\* nothing more runs either way.
AfterReply(task, ok, fallback) ==
    [task EXCEPT !.pc = IF ok THEN "replied" ELSE "replyRejected"]

\* The promise of interaction.reply settles; `void` left it without a handler.
ReplySettles(t, ok) ==
    /\ tasks[t].pc = "replying"
    /\ tasks' = [tasks EXCEPT ![t] = AfterReply(@, ok, fallbackError)]
    /\ unhandled' = IF ok THEN unhandled
                    ELSE unhandled \cup {[kind |-> "reply", id |-> t]}
    /\ UNCHANGED <<store, thrown, lastCall, fallbackError, isDev, commands, instances,
                   interactionListeners, readyListeners, isReady, submissions,
                   events>>

--------------------------------------------------------------------------

(* Two specifications over the same client. The 'interactionCreate'        *)
(* listener and the once('ready') listener read the registry and write     *)
(* nothing the other reads, so each is explored with the registry          *)
(* operations and without the other: Spec follows the dispatches,          *)
(* SpecReady the schema submission. isDev is read by the ready listener    *)
(* alone and fallbackError by the catch block alone, so each is left open  *)
(* only where it is read.                                                  *)

Init ==
    /\ store = DeclaredStore
    /\ thrown = NoError
    /\ lastCall = NoCall
    /\ InitClient
    /\ isDev = FALSE

Next ==
    \/ \E batch \in Batches : addCommands(batch)
    \/ login
    \/ \E event \in Events, resolveError \in {None} \cup ResolveErrors :
            interactionCreate(event, resolveError)
    \/ \E t \in 1 .. Len(tasks), outcome \in {None} \cup Errors : HandlerSettles(t, outcome)
    \/ \E t \in 1 .. Len(tasks), ok \in BOOLEAN : ReplySettles(t, ok)

Spec == Init /\ [][Next]_vars

InitReady ==
    /\ store = DeclaredStore
    /\ thrown = NoError
    /\ lastCall = NoCall
    /\ InitClient
    /\ fallbackError = Undefined

NextReady ==
    \/ \E batch \in Batches : addCommands(batch)
    \/ login
    \/ ready
    \/ \E i \in 1 .. Len(submissions), ok \in BOOLEAN : SubmissionSettles(i, ok)

SpecReady == InitReady /\ [][NextReady]_vars

--------------------------------------------------------------------------
(* Properties *)

Last(seq) == seq[Len(seq)]

PrivateReply(content) == [sent |-> TRUE, ephemeral |-> TRUE, content |-> content]

\* C1: whenever option resolution or the handler raised a MammotError, the
\* reply is ephemeral and its content is exactly the error's message,
\* whatever fallbackError is.
C1_SafeErrorVerbatim ==
    \A t \in 1 .. Len(tasks) :
        (tasks[t].error.raised /\ tasks[t].error.mammot)
            => tasks[t].reply = PrivateReply(tasks[t].error.message)

C1_Witness ==
    \E t \in 1 .. Len(tasks) :
        /\ tasks[t].invoked
        /\ tasks[t].error.mammot
        /\ fallbackError = "Oops!"
        /\ tasks[t].reply = PrivateReply("Not enough permissions")

\* C2 as stated: after an error that is not a MammotError the reply is the
\* fallback message whenever one was supplied, whatever string it is, and
\* 'Something went wrong.' otherwise; the error is written to the console.
C2_AnySuppliedFallback ==
    \A t \in 1 .. Len(tasks) :
        (tasks[t].error.raised /\ ~tasks[t].error.mammot)
            => /\ tasks[t].reply =
                    PrivateReply(IF fallbackError /= Undefined THEN fallbackError
                                 ELSE "Something went wrong.")
               /\ tasks[t].warned = tasks[t].error

\* C2, amended: after an error that is not a MammotError the reply is the
\* fallback message when a non-empty one was supplied, and 'Something went
\* wrong.' when none or the empty string was; the error is written to the
\* console in both cases.
C2_NonEmptyFallback ==
    \A t \in 1 .. Len(tasks) :
        (tasks[t].error.raised /\ ~tasks[t].error.mammot)
            => /\ tasks[t].reply =
                    PrivateReply(IF fallbackError \notin {Undefined, ""} THEN fallbackError
                                 ELSE "Something went wrong.")
               /\ tasks[t].warned = tasks[t].error

C2_Witness ==
    \E t \in 1 .. Len(tasks) :
        /\ tasks[t].invoked
        /\ tasks[t].error.raised
        /\ ~tasks[t].error.mammot
        /\ fallbackError = "Oops!"
        /\ tasks[t].reply = PrivateReply("Oops!")
        /\ tasks[t].warned = tasks[t].error

\* C3: no error of a dispatch is left unhandled: no promise of a dispatch
\* rejects without a handler.
C3_NothingUnhandled == unhandled = {}

\* C4: an interactionCreate event for a command name that is no key of the
\* registry starts no run of a handler, sends no reply, writes no
\* diagnostic, raises nothing and leaves the registry as it was.
C4_UnknownCommandIsNoOp ==
    [][ (/\ Len(events') = Len(events) + 1
         /\ \A i \in 1 .. Len(commands) : commands[i].name /= Last(events').commandName)
        => (tasks' = tasks /\ unhandled' = unhandled /\ commands' = commands) ]_vars

C4_Witness ==
    /\ commands /= << >>
    /\ events /= << >>
    /\ Last(events).isCommand
    /\ Last(events).commandName = "pang"
    /\ tasks = << >>

\* C5: at every dispatch the options handed to resolveMetadata are in
\* ascending index order 0..N-1, and so the arguments of run are those of
\* the declared parameters from left to right.
C5_AscendingAtDispatch ==
    \A t \in 1 .. Len(tasks) :
        LET params == Declarations[tasks[t].command.class].params IN
        /\ [i \in 1 .. Len(tasks[t].options) |-> tasks[t].options[i].index]
               = [i \in 1 .. Len(params) |-> i - 1]
        /\ tasks[t].invoked
               => [i \in 1 .. Len(tasks[t].args) |-> tasks[t].args[i].option]
                      = [i \in 1 .. Len(params) |-> params[i].name]

InstancesNamed(name) ==
    {k \in 1 .. Len(instances) : store[instances[k]].data.name = name}

Latest(name) ==
    CHOOSE k \in InstancesNamed(name) : \A j \in InstancesNamed(name) : j <= k

Elements(seq) == {seq[i] : i \in 1 .. Len(seq)}

\* C6: the registry holds one entry for each name registered, and it is the
\* descriptor of the latest instance registered under that name: its
\* description, its handler instance and its options (as collected, while
\* no login has run).
C6_LastRegistrationWins ==
    /\ \A i, j \in 1 .. Len(commands) : commands[i].name = commands[j].name => i = j
    /\ \A k \in 1 .. Len(instances) :
        LET name == store[instances[k]].data.name
            last == Latest(name)
            entries == {i \in 1 .. Len(commands) : commands[i].name = name}
        IN /\ Cardinality(entries) = 1
           /\ \A i \in entries :
                /\ commands[i].command = [class |-> instances[last], id |-> last]
                /\ commands[i].description = store[instances[last]].data.description
                /\ Elements(commands[i].options) = Elements(store[instances[last]].options)
                /\ interactionListeners = 0
                       => commands[i].options = store[instances[last]].options

C6_Witness ==
    /\ instances = <<"Ping", "Ping2">>
    /\ Len(commands) = 1
    /\ commands[1].name = "ping"
    /\ commands[1].description = "pong again"
    /\ commands[1].command = [class |-> "Ping2", id |-> 2]

\* C7: the schema is submitted at most once, and only once the client has
\* reported ready, however often login was called.
C7_SubmittedOnce ==
    /\ Len(submissions) <= 1
    /\ submissions /= << >> => isReady

\* The flattened option of class cls declared at index k.
DeclaredOption(cls, k) ==
    Flattened(CHOOSE o \in Elements(store[cls].options) : o.index = k)

\* C8: in every schema submitted, each command lists its options in
\* ascending index order, each as its config and its name.
C8_SchemaAscending ==
    \A s \in 1 .. Len(submissions) :
        \A c \in 1 .. Len(submissions[s].mapped) :
            LET entry == submissions[s].mapped[c] IN
            \E cls \in CommandClasses :
                /\ store[cls].data = [name |-> entry.name, description |-> entry.description]
                /\ entry.options = [k \in 1 .. Len(store[cls].options) |->
                                        DeclaredOption(cls, k - 1)]

\* C9: nothing but addCommands changes the registry: login, the listeners
\* and the settling of their promises leave every entry as it was.
C9_RegistryImmutable == [][instances' = instances => commands' = commands]_vars

\* The kind section 4.1 of the specification gives for a declared type,
\* for the types whose kind does not depend on the config.
InferredKind ==
    [type \in {"String", "Boolean", "Role", "User", "GuildMember", "TextChannel"} |->
        IF type = "String" THEN "STRING"
        ELSE IF type = "Boolean" THEN "BOOLEAN"
        ELSE IF type = "Role" THEN "ROLE"
        ELSE IF type = "TextChannel" THEN "CHANNEL"
        ELSE "USER"]

OnRunOfCommand(c) ==
    /\ c.decorator \in {"option", "forced"}
    /\ c.property = "run"
    /\ IsCommandClass(c.class)

\* The call recorded the option at its index with this kind.
Recorded(c, kind) ==
    /\ thrown = NoError
    /\ store[c.class].options /= << >>
    /\ Last(store[c.class].options).index = c.index
    /\ Last(store[c.class].options).name = c.name
    /\ Last(store[c.class].options).config.type = kind

\* The call threw this error and recorded nothing.
Threw(c, error) ==
    /\ thrown = error
    /\ \A o \in Elements(store[c.class].options) : o.index /= c.index

\* C11: on a parameter declared as a number, a config without a type fails,
\* a config type other than NUMBER and INTEGER fails with or without force,
\* and NUMBER or INTEGER succeeds and is the kind recorded.
C11_NumericSubtype ==
    LET c == lastCall IN
    (OnRunOfCommand(c) /\ c.type = "Number")
    => IF c.config.type = Undefined
           THEN Threw(c, "You must specify a type for numbers in the config!")
       ELSE IF c.config.type \in {"NUMBER", "INTEGER"}
           THEN Recorded(c, c.config.type)
       ELSE Threw(c, "Number type must be either NUMBER or INTEGER.")

C11_Witness ==
    /\ lastCall.decorator = "forced"
    /\ lastCall.type = "Number"
    /\ lastCall.config.type = "STRING"
    /\ thrown = "Number type must be either NUMBER or INTEGER."

\* C12: a declared type of the supported set is given the kind of the rule
\* table, and a declared type outside it (any other class, or none) fails
\* with 'Unsupported data type.' and is recorded under no kind.
C12_InferenceTable ==
    LET c == lastCall IN
    (OnRunOfCommand(c) /\ c.type /= "Number")
    => IF c.type \in DOMAIN InferredKind
           THEN /\ thrown = NoError => Recorded(c, InferredKind[c.type])
                /\ c.config.type = Undefined => thrown = NoError
           ELSE Threw(c, "Unsupported data type.")

\* C13: when the client reports ready, each listener submits its command
\* list to the development guild if and only if isDev is true and globally
\* otherwise, and the list is the same in both modes: the one login computed.
C13_ScopeByMode ==
    [][ (isReady' /\ ~isReady)
        => /\ Len(submissions') = Len(submissions) + Len(readyListeners)
           /\ \A i \in 1 .. Len(readyListeners) :
                LET s == submissions'[Len(submissions) + i] IN
                /\ s.mapped = readyListeners[i]
                /\ isDev => s.guildId = DevelopmentGuild
                /\ ~isDev => s.guildId = Undefined ]_vars

C13_Witness ==
    /\ isDev
    /\ submissions /= << >>
    /\ submissions[1].guildId = DevelopmentGuild
    /\ submissions[1].mapped /= << >>

\* C19: options.ready is called only after commands.set resolved, never
\* after it rejected, and at most once by each login's listener.
C19_ReadyAfterSubmission ==
    /\ Len(submissions) <= interactionListeners
    /\ \A i \in 1 .. Len(submissions) :
        /\ submissions[i].readyCalls <= 1
        /\ submissions[i].readyCalls = 1 <=> submissions[i].state = "resolved"
        /\ submissions[i].state = "rejected" => submissions[i].readyCalls = 0

C19_Witness ==
    \E i, j \in 1 .. Len(submissions) :
        /\ submissions[i].state = "rejected"
        /\ submissions[i].readyCalls = 0
        /\ submissions[j].state = "resolved"
        /\ submissions[j].readyCalls = 1

SchemaNames(mapped) == [i \in 1 .. Len(mapped) |-> mapped[i].name]

\* The schemas computed by the login calls so far, submitted or not.
Snapshots ==
    readyListeners \o [i \in 1 .. Len(submissions) |-> submissions[i].mapped]

\* The order the decorators collect options in: rightmost parameter first.
AsCollected(options) ==
    \A i \in 1 .. Len(options) : options[i].index = Len(options) - i

\* C20 as stated: a command that was not in the registry at some login call
\* (so was added after it) is in no submitted schema, and its options stay in
\* the order they were collected in.
C20_AddedLaterNeverInSchema ==
    \A i \in 1 .. Len(commands) :
        (\E k \in 1 .. Len(Snapshots) :
            commands[i].name \notin Elements(SchemaNames(Snapshots[k])))
        => /\ \A s \in 1 .. Len(submissions) :
                commands[i].name \notin Elements(SchemaNames(submissions[s].mapped))
           /\ AsCollected(commands[i].options)

\* What holds with any number of login calls: each login call computes its
\* own schema, with one entry per registry key present at that call, and on ready each listener submits the
\* schema of its own login call; addCommands changes no schema already
\* computed and reorders no entry it keeps, and every login call reverses
\* the options of every entry then in the registry. So a command added
\* after a login call is never in that call's schema, and it is in a schema,
\* with its options reversed, exactly through the login calls after it.
SnapshotPerLogin ==
    [][ /\ interactionListeners' /= interactionListeners
            => /\ Len(readyListeners') = Len(readyListeners) + 1
               /\ \A k \in 1 .. Len(readyListeners) : readyListeners'[k] = readyListeners[k]
               /\ SchemaNames(Last(readyListeners')) = SchemaNames(commands)
               /\ \A i, j \in 1 .. Len(commands) :
                    commands[i].name = commands[j].name => i = j
               /\ Len(commands') = Len(commands)
               /\ \A i \in 1 .. Len(commands) :
                    /\ commands'[i].command = commands[i].command
                    /\ commands'[i].options = Reverse(commands[i].options)
        /\ instances' /= instances
            => /\ readyListeners' = readyListeners
               /\ submissions' = submissions
               /\ \A i \in 1 .. Len(commands) :
                    \/ commands'[i] = commands[i]
                    \/ commands'[i].command.id > Len(instances)
        /\ (isReady' /\ ~isReady)
            => \A i \in 1 .. Len(readyListeners) :
                    submissions'[Len(submissions) + i].mapped = readyListeners[i] ]_vars

\* C14: an interactionCreate event for a registered command starts exactly
\* one run of the listener, and so one call of the handler (none if the
\* option resolution raised), however often login was called; an event that
\* is not a command, or is for no registered command, starts none.
C14_OneRunPerEvent ==
    [][ Len(events') = Len(events) + 1
        => IF /\ Last(events').isCommand
              /\ \E i \in 1 .. Len(commands) : commands[i].name = Last(events').commandName
           THEN /\ Len(tasks') = Len(tasks) + 1
                /\ Last(tasks').invoked \/ Last(tasks').error.raised
           ELSE tasks' = tasks ]_vars

\* C15: each run of the listener calls interaction.reply at most once: not at
\* all when the handler returned, once when option resolution or the handler
\* raised; a rejected reply is followed by no second reply and no second
\* translation of the error.
C15_AtMostOneReply ==
    \A t \in 1 .. Len(tasks) :
        /\ tasks[t].replies = IF tasks[t].error.raised THEN 1 ELSE 0
        /\ tasks[t].reply.sent <=> tasks[t].error.raised
        /\ tasks[t].pc \in {"awaiting", "returned"} => tasks[t].replies = 0
        /\ tasks[t].pc \in {"replying", "replied", "replyRejected"} => tasks[t].replies = 1

C15_Witness ==
    \E t, u \in 1 .. Len(tasks) :
        /\ tasks[t].pc = "replyRejected"
        /\ tasks[t].replies = 1
        /\ tasks[u].pc = "returned"
        /\ tasks[u].replies = 0

\* C16: runs of the listener that are in flight together do not affect each
\* other: a step changes at most one run, never the arguments a run's handler
\* was called with nor a reply already made; the arguments of a run are those
\* of its own options, and its reply that of its own error.
C16_IndependentRuns ==
    [][ /\ Len(tasks') >= Len(tasks)
        /\ \A t \in 1 .. Len(tasks) :
            /\ tasks'[t].event = tasks[t].event
            /\ tasks'[t].command = tasks[t].command
            /\ tasks'[t].invoked = tasks[t].invoked
            /\ tasks'[t].args = tasks[t].args
            /\ tasks[t].reply.sent => tasks'[t].reply = tasks[t].reply
            /\ tasks'[t] /= tasks[t]
                => \A u \in 1 .. Len(tasks) : u /= t => tasks'[u] = tasks[u]
        /\ \A t \in 1 .. Len(tasks') :
            /\ tasks'[t].invoked
                => [i \in 1 .. Len(tasks'[t].args) |-> tasks'[t].args[i].option]
                       = [i \in 1 .. Len(tasks'[t].options) |-> tasks'[t].options[i].name]
            /\ tasks'[t].reply.sent
                => tasks'[t].reply.content \in
                       {tasks'[t].error.message, fallbackError, "Something went wrong."} ]_vars

\* A handler that has not completed, and a later event dispatched to its end.
C16_Witness ==
    \E t, u \in 1 .. Len(tasks) :
        /\ tasks[t].event < tasks[u].event
        /\ tasks[t].pc = "awaiting"
        /\ tasks[u].pc = "replied"
        /\ tasks[t].command /= tasks[u].command

\* The option attachments the specification lists as failing.
Fails(c) ==
    \/ c.property /= "run"
    \/ ~IsCommandClass(c.class)
    \/ c.type = Undefined
    \/ c.type = "Number" /\ c.config.type \notin {"NUMBER", "INTEGER"}
    \/ /\ c.type \in DOMAIN InferredKind
       /\ c.config.type \notin {Undefined, InferredKind[c.type]}
       /\ c.config.force /= "true"
       /\ c.decorator /= "forced"

\* C17: an option attachment that fails (not on run, not on a command class,
\* unsupported type, missing or invalid numeric subtype, mismatch without
\* force) throws with the metadata store as it was, and nothing catches the
\* error: no decorator runs after it.
C17_FailsBeforeWrite ==
    [][ /\ thrown = NoError
        /\ lastCall'.decorator \in {"option", "forced"}
            => /\ Fails(lastCall') => thrown' /= NoError
               /\ thrown' /= NoError => store' = store ]_vars

C17_Witness ==
    /\ thrown = "Type mismatch."
    /\ lastCall.decorator = "option"
    /\ Len(store[lastCall.class].options) = 1

Unexpected(task) == task.error.raised /\ ~task.error.mammot

\* C18: under one configuration the reply to an error that is not a
\* MammotError is the same whatever the error is, and console.warn is called
\* exactly for the errors that are not MammotErrors.
C18_ReplyIndependentOfError ==
    /\ \A t, u \in 1 .. Len(tasks) :
        (Unexpected(tasks[t]) /\ Unexpected(tasks[u])) => tasks[t].reply = tasks[u].reply
    /\ \A t \in 1 .. Len(tasks) :
        /\ tasks[t].warned.raised <=> Unexpected(tasks[t])
        /\ Unexpected(tasks[t]) => tasks[t].warned = tasks[t].error

C18_Witness ==
    \E t, u \in 1 .. Len(tasks) :
        /\ Unexpected(tasks[t])
        /\ Unexpected(tasks[u])
        /\ tasks[t].error /= tasks[u].error
        /\ tasks[t].reply = tasks[u].reply
        /\ fallbackError = Undefined

====
